---- MODULE Spec2Model ----
(***************************************************************************)
(* A model of metadata_extraction_tool.py: the batch pipeline that         *)
(* compresses each image in place, asks Google Cloud Vision for labels,    *)
(* asks Astica for a caption and writes the records to image_metadata.csv. *)
(*                                                                         *)
(* Text that the program only stores and compares (sentinels, labels,      *)
(* captions after stripping) is a TLA+ string; text that the program takes *)
(* apart (file names, paths, captions before stripping) is a sequence of   *)
(* one-character strings.  An optional value (None or a value) is a        *)
(* sequence of length 0 or 1.                                              *)
(***************************************************************************)
EXTENDS Integers, Sequences, FiniteSets, TLC

VARIABLES
    colab,                      \* is_running_in_colab(): google.colab imports
    environ,                    \* os.environ: the two settings the program reads
    pc,                         \* position of main(), or of a single function call
    stage,                      \* position inside process_image_metadata
    image_paths_to_process,     \* main's list of paths
    idx,                        \* index of the image the loop is at (1-based)
    processed_images_metadata,  \* main's list of records
    temp_image_paths_colab,     \* main's list of files saved from the upload
    disk,                       \* the image files: path -> file state
    before,                     \* the current file as it was when compress_image was called
    cur,                        \* locals of process_image_metadata
    csvfile,                    \* image_metadata.csv: whether opened, and the rows written
    trace,                      \* the stages and external requests performed, in order
    escaped,                    \* an exception left a function that must not raise
    call,                       \* the arguments of a single function call
    ret                         \* what that call returned

vars == <<colab, environ, pc, stage, image_paths_to_process, idx,
          processed_images_metadata, temp_image_paths_colab, disk, before, cur,
          csvfile, trace, escaped, call, ret>>

(***************************************************************************)
(* Bounds of the model.                                                    *)
(***************************************************************************)
MaxDir == 2        \* entries in the scanned directory, or files in an upload
MaxLabels == 2     \* labels in one Vision response
MaxHeight == 3     \* image heights 1..MaxHeight are tried beside the large ones

(***************************************************************************)
(* Configuration constants.                                                *)
(***************************************************************************)
OUTPUT_CSV_FILENAME == "image_metadata.csv"
MAX_IMAGE_WIDTH == 1024

(***************************************************************************)
(* Strings as sequences of characters.                                     *)
(***************************************************************************)
RECURSIVE Str(_)
Str(s) == IF s = <<>> THEN "" ELSE Head(s) \o Str(Tail(s))

Upper == <<"A", "B", "E", "F", "G", "I", "J", "M", "N", "P", "T", "X">>
Lower == <<"a", "b", "e", "f", "g", "i", "j", "m", "n", "p", "t", "x">>

\* str.lower(), character by character
LowerChar(c) ==
    IF \E i \in 1..Len(Upper) : Upper[i] = c
    THEN Lower[CHOOSE i \in 1..Len(Upper) : Upper[i] = c]
    ELSE c

StrLower(s) == [i \in 1..Len(s) |-> LowerChar(s[i])]

\* str.endswith(suffix)
EndsWith(s, suffix) ==
    /\ Len(suffix) <= Len(s)
    /\ SubSeq(s, Len(s) - Len(suffix) + 1, Len(s)) = suffix

\* str.strip(): leading and trailing blanks removed
RECURSIVE LStrip(_)
LStrip(s) == IF s # <<>> /\ Head(s) = " " THEN LStrip(Tail(s)) ELSE s

RECURSIVE RStrip(_)
RStrip(s) ==
    IF s # <<>> /\ s[Len(s)] = " " THEN RStrip(SubSeq(s, 1, Len(s) - 1)) ELSE s

Strip(s) == RStrip(LStrip(s))

\* os.path.join(a, b)
PathJoin(a, b) ==
    IF b # <<>> /\ Head(b) = "/" THEN b
    ELSE IF a = <<>> \/ a[Len(a)] = "/" THEN a \o b
    ELSE a \o <<"/">> \o b

\* os.path.basename(p): what follows the last "/"
Basename(p) ==
    LET slashes == {i \in 1..Len(p) : p[i] = "/"}
        last == IF slashes = {} THEN 0
                ELSE CHOOSE i \in slashes : \A j \in slashes : j <= i
    IN SubSeq(p, last + 1, Len(p))

(***************************************************************************)
(* Exceptions: the classes an exception is an instance of.                 *)
(***************************************************************************)
Ancestors(exc) ==
    CASE exc = "FileNotFoundError" -> {"FileNotFoundError", "OSError", "Exception"}
      [] exc = "UnidentifiedImageError" -> {"UnidentifiedImageError", "OSError", "Exception"}
      [] exc = "OSError" -> {"OSError", "Exception"}
      [] exc = "ValueError" -> {"ValueError", "Exception"}
      [] exc = "AttributeError" -> {"AttributeError", "Exception"}
      [] exc = "HTTPError" -> {"HTTPError", "RequestException", "OSError", "Exception"}
      [] exc = "ConnectionError" -> {"ConnectionError", "RequestException", "OSError", "Exception"}
      [] exc = "Timeout" -> {"Timeout", "RequestException", "OSError", "Exception"}
      \* requests >= 2.27: Response.json() raises requests.exceptions.JSONDecodeError,
      \* a subclass of both InvalidJSONError (a RequestException) and json.JSONDecodeError
      [] exc = "requests.JSONDecodeError" ->
            {"requests.JSONDecodeError", "InvalidJSONError", "RequestException",
             "json.JSONDecodeError", "ValueError", "OSError", "Exception"}
      \* requests < 2.27: Response.json() lets json.JSONDecodeError through
      [] exc = "json.JSONDecodeError" -> {"json.JSONDecodeError", "ValueError", "Exception"}
      [] exc = "GoogleAPIError" -> {"GoogleAPIError", "Exception"}
      [] OTHER -> {"Exception"}

\* The first except clause that catches exc (0: none does).
Handler(exc, clauses) ==
    LET hits == {i \in 1..Len(clauses) : clauses[i] \in Ancestors(exc)}
    IN IF hits = {} THEN 0 ELSE CHOOSE i \in hits : \A j \in hits : i <= j

NoExc == "none"

(***************************************************************************)
(* Files.                                                                  *)
(***************************************************************************)
ImageFile(w, h, s) == [kind |-> "image", w |-> w, h |-> h, savable |-> s]
CorruptFile == [kind |-> "corrupt", w |-> 0, h |-> 0, savable |-> FALSE]
EmptyFile == [kind |-> "empty", w |-> 0, h |-> 0, savable |-> FALSE]
AbsentFile == [kind |-> "absent", w |-> 0, h |-> 0, savable |-> FALSE]

(***************************************************************************)
(* compress_image                                                          *)
(***************************************************************************)
PowerOfTwo(n) == \E k \in 0..20 : n = 2^k

\* int(float(h) * (max_width / float(w))).  The quotient max_width/w is rounded to
\* a double unless w is a power of two, and the product is rounded again: when
\* h*max_width/w is a whole number the product may fall just below it, and int()
\* then yields one less (49 * (1024/50176.0) = 0.9999999999999999).  Otherwise the
\* result is the floor of the exact quotient.
HeightSize(w, h, max_width) ==
    LET q == (h * max_width) \div w
    IN IF (h * max_width) % w = 0 /\ ~PowerOfTwo(w) THEN {q, q - 1} ELSE {q}

\* The try body with the resized height already computed: the file it leaves and
\* the exception it ends with.
CompressBodySaveFirst(f, max_width, height_size) ==
    IF f.kind = "absent" THEN [file |-> f, exc |-> "FileNotFoundError"]
    ELSE IF f.kind # "image" THEN [file |-> EmptyFile, exc |-> "UnidentifiedImageError"]
    ELSE IF f.w > max_width /\ height_size < 1 THEN [file |-> EmptyFile, exc |-> "ValueError"]
    ELSE LET img == IF f.w > max_width
                    THEN ImageFile(max_width, height_size, f.savable) ELSE f
         IN IF ~img.savable THEN [file |-> EmptyFile, exc |-> "OSError"]
            ELSE [file |-> img, exc |-> NoExc]

CompressBody(f, max_width, height_size) ==
    \* Image.open(image_path): a missing file, or bytes that are no image
    IF f.kind = "absent" THEN [file |-> f, exc |-> "FileNotFoundError"]
    ELSE IF f.kind # "image" THEN [file |-> f, exc |-> "UnidentifiedImageError"]
    \* img.resize((max_width, height_size)): Pillow refuses a size below 1
    ELSE IF f.w > max_width /\ height_size < 1 THEN [file |-> f, exc |-> "ValueError"]
    ELSE LET img == IF f.w > max_width
                    THEN ImageFile(max_width, height_size, f.savable) ELSE f
         \* img.save(image_path): Pillow opens the path "w+b", which empties the
         \* file, and only then runs the encoder, which raises OSError for a mode
         \* the format cannot hold (an RGBA image under a .jpg name)
         IN IF ~img.savable THEN [file |-> EmptyFile, exc |-> "OSError"]
            ELSE [file |-> img, exc |-> NoExc]

\* Every outcome of compress_image(image_path, max_width) on file f: the file left
\* on disk, what the call printed, and whether an exception left the function.
compress_image(f, max_width) ==
    LET heights == IF f.kind = "image" /\ f.w > max_width
                   THEN HeightSize(f.w, f.h, max_width) ELSE {0}
    IN { LET r == CompressBody(f, max_width, hs)
             h == Handler(r.exc, <<"FileNotFoundError", "Exception">>)
         IN [file |-> r.file,
             report |-> IF r.exc = NoExc THEN "Compressed"
                        ELSE IF h = 1 THEN "Error: Image file not found"
                        ELSE IF h = 2 THEN "Error compressing image"
                        ELSE "",
             escaped |-> r.exc # NoExc /\ h = 0]
         : hs \in heights }

(***************************************************************************)
(* get_image_tags_from_google                                              *)
(***************************************************************************)
VisionResponse(net, error, descriptions) ==
    [net |-> net, error |-> error, labels |-> descriptions]

\* sep.join(items)
RECURSIVE JoinReversed(_, _)
JoinReversed(sep, items) ==
    IF items = <<>> THEN ""
    ELSE IF Len(items) = 1 THEN items[1]
    ELSE JoinReversed(sep, Tail(items)) \o sep \o Head(items)

RECURSIVE Join(_, _)
Join(sep, items) ==
    IF items = <<>> THEN ""
    ELSE IF Len(items) = 1 THEN items[1]
    ELSE Head(items) \o sep \o Join(sep, Tail(items))

TagsBody(f, clientOK, response) ==
    \* vision.ImageAnnotatorClient()
    IF ~clientOK THEN [value |-> "", exc |-> "DefaultCredentialsError", requested |-> FALSE]
    \* io.open(image_path, 'rb')
    ELSE IF f.kind = "absent"
    THEN [value |-> "", exc |-> "FileNotFoundError", requested |-> FALSE]
    \* client.label_detection(image=image_vision)
    ELSE IF response.net # "ok"
    THEN [value |-> "", exc |-> "GoogleAPIError", requested |-> TRUE]
    ELSE IF response.error # ""
    THEN [value |-> "", exc |-> "Exception", requested |-> TRUE]
    ELSE LET google_tags == Join(", ", response.labels)
         IN [value |-> IF google_tags # "" THEN google_tags
                       ELSE "No tags found by Google Vision",
             exc |-> NoExc, requested |-> TRUE]

get_image_tags_from_google(f, clientOK, response) ==
    LET r == TagsBody(f, clientOK, response)
        h == Handler(r.exc, <<"Exception">>)
    IN [value |-> IF r.exc = NoExc THEN r.value ELSE "Google Vision tags failed",
        requested |-> r.requested,
        escaped |-> r.exc # NoExc /\ h = 0]

(***************************************************************************)
(* convert_image_to_base64: None (<<>>), or the encoded bytes              *)
(***************************************************************************)
convert_image_to_base64(f) ==
    IF f.kind = "absent" THEN <<>>
    ELSE IF f.kind = "empty" THEN <<"">>
    ELSE <<"aW1hZ2U=">>

\* Python's truth value of an optional string
Truthy(opt) == opt # <<>> /\ opt[1] # ""

(***************************************************************************)
(* get_description_from_astica                                             *)
(*                                                                         *)
(* An HTTP exchange: net is "ok" or the exception requests.post raises;    *)
(* status is the response's status code; body is the response body.  A     *)
(* body is valid JSON or not, a JSON object or not, and an object holds    *)
(* each of the keys status, error, caption or not (an optional value); a   *)
(* caption is a string (str, chars) or another JSON value (null).          *)
(***************************************************************************)
JsonObject(status, error, caption) ==
    [valid |-> TRUE, obj |-> TRUE, status |-> status, error |-> error,
     caption |-> caption]
JsonNotObject ==
    [valid |-> TRUE, obj |-> FALSE, status |-> <<>>, error |-> <<>>, caption |-> <<>>]
NotJson ==
    [valid |-> FALSE, obj |-> FALSE, status |-> <<>>, error |-> <<>>, caption |-> <<>>]

StrValue(chars) == [str |-> TRUE, chars |-> chars]
NullValue == [str |-> FALSE, chars |-> <<>>]

HttpExchange(net, status, body) == [net |-> net, status |-> status, body |-> body]

\* response.raise_for_status(): HTTPError for 4XX and 5XX
RaisesForStatus(status) == 400 <= status /\ status < 600

\* The exception Response.json() raises for a body that is not JSON.
JsonError(requestsNew) ==
    IF requestsNew THEN "requests.JSONDecodeError" ELSE "json.JSONDecodeError"

AsticaBody(http, requestsNew) ==
    \* requests.post(api_endpoint, json=params, timeout=ASTICA_API_TIMEOUT)
    IF http.net # "ok" THEN [value |-> "", exc |-> http.net]
    ELSE IF RaisesForStatus(http.status) THEN [value |-> "", exc |-> "HTTPError"]
    \* response_astica.json()
    ELSE IF ~http.body.valid THEN [value |-> "", exc |-> JsonError(requestsNew)]
    \* astica_result.get(...) on a JSON value that is no object
    ELSE IF ~http.body.obj THEN [value |-> "", exc |-> "AttributeError"]
    ELSE LET astica_result == http.body
         IN IF astica_result.status = <<"error">> \/ astica_result.error # <<>>
            THEN LET error_msg == IF astica_result.error # <<>>
                                  THEN astica_result.error[1]
                                  ELSE "Unknown Astica API error"
                 IN [value |-> "Astica API error: " \o error_msg, exc |-> NoExc]
            \* astica_result.get('caption', '').strip()
            ELSE IF astica_result.caption # <<>> /\ ~astica_result.caption[1].str
            THEN [value |-> "", exc |-> "AttributeError"]
            ELSE LET caption == IF astica_result.caption = <<>> THEN <<>>
                                ELSE astica_result.caption[1].chars
                     astica_description == Str(Strip(caption))
                 IN [value |-> IF astica_description # "" THEN astica_description
                               ELSE "No description available from Astica",
                     exc |-> NoExc]

\* The except clauses, in the order they are written.
AsticaClauses == <<"HTTPError", "RequestException", "ValueError", "Exception">>

AsticaSentinel(clause) ==
    CASE clause = "HTTPError" -> "Astica API request failed (HTTP error)"
      [] clause = "RequestException" -> "Astica API request failed (Connection/Request error)"
      [] clause = "ValueError" -> "Astica API response JSON decoding failed"
      [] OTHER -> "Astica description processing failed (Unexpected error)"

\* astica_api_key: os.environ.get('ASTICA_API_KEY'), an optional string.
get_description_from_astica(astica_api_key, http, requestsNew) ==
    IF ~Truthy(astica_api_key)
    THEN [value |-> "Astica API key not configured", requested |-> FALSE,
          escaped |-> FALSE]
    ELSE LET r == AsticaBody(http, requestsNew)
             h == Handler(r.exc, AsticaClauses)
         IN [value |-> IF r.exc = NoExc THEN r.value
                       ELSE IF h = 0 THEN ""
                       ELSE AsticaSentinel(AsticaClauses[h]),
             requested |-> TRUE,
             escaped |-> r.exc # NoExc /\ h = 0]

(***************************************************************************)
(* setup_google_credentials                                                *)
(*                                                                         *)
(* environ holds GOOGLE_APPLICATION_CREDENTIALS and ASTICA_API_KEY as      *)
(* optional strings, and cred_exists: whether the credentials path names   *)
(* an existing file.  upload is what files.upload() does in Colab: "none"  *)
(* (nothing uploaded), "file" or "error" (it raises).                      *)
(***************************************************************************)
CredUploads == {"none", "file", "error"}

setup_google_credentials_always(env, inColab, upload) ==
    [ok |-> TRUE, environ |-> env]

setup_google_credentials(env, inColab, upload) ==
    IF env.GOOGLE_APPLICATION_CREDENTIALS # <<>> /\ env.cred_exists
    THEN [ok |-> TRUE, environ |-> env]
    ELSE IF inColab /\ upload = "file"
    THEN [ok |-> TRUE,
          environ |-> [env EXCEPT !.GOOGLE_APPLICATION_CREDENTIALS = <<"key.json">>,
                                  !.cred_exists = TRUE]]
    ELSE [ok |-> FALSE, environ |-> env]

(***************************************************************************)
(* The files the model's directory, upload and prompt draw from.           *)
(***************************************************************************)
Names ==
    { <<"a", ".", "j", "p", "g">>,
      <<"b", ".", "P", "N", "G">>,
      <<"c", ".", "t", "x", "t">>,
      <<"d", ".", "j", "p", "e", "g">>,
      <<"e", ".", "G", "i", "f">>,
      <<"f", ".", "b", "m", "p">>,
      <<"g", ".", "t", "i", "f", "f">>,
      <<"h", ".", "t", "i", "f">>,
      <<"j", "p", "g">> }

\* What a file of each name may hold: an image of some size (savable: its mode can
\* be stored in the format its name asks for), bytes that are no image, or nothing
\* (a dangling link).
FilesNamed(name) ==
    CASE name[1] = "a" -> {ImageFile(2 * MAX_IMAGE_WIDTH, 3, TRUE), CorruptFile}
      [] name[1] = "d" -> {ImageFile(MAX_IMAGE_WIDTH + 1, 1, TRUE)}
      [] name[1] = "e" -> {AbsentFile}
      [] name[1] = "f" -> {ImageFile(640, 2, FALSE)}
      [] name[1] = "g" -> {ImageFile(MAX_IMAGE_WIDTH, 3, TRUE)}
      [] name[1] = "c" -> {CorruptFile}
      [] OTHER -> {ImageFile(800, 2, TRUE)}

UploadNames == { n \in Names : n[1] \in {"a", "c", "f"} }

DirPath == <<"d">>
DevPath == <<"/", "n">>
Cwd == <<"/", "c">>

Range(f) == {f[i] : i \in DOMAIN f}

\* The sequences of at most n distinct elements of S.
DistinctSeqs(S, n) ==
    UNION { {q \in [1..k -> S] : \A i, j \in 1..k : q[i] = q[j] => i = j} : k \in 0..n }

\* One file state for each of the names.
FileChoices(names) == {f \in [names -> UNION {FilesNamed(n) : n \in names}] :
                          \A n \in names : f[n] \in FilesNamed(n)}

ImageExtensions ==
    << <<".", "p", "n", "g">>, <<".", "j", "p", "g">>, <<".", "j", "p", "e", "g">>,
       <<".", "g", "i", "f">>, <<".", "b", "m", "p">>, <<".", "t", "i", "f", "f">> >>

IsImageNameCaseSensitive(name) ==
    \E i \in 1..Len(ImageExtensions) : EndsWith(name, ImageExtensions[i])

\* f_name.lower().endswith(('.png', '.jpg', '.jpeg', '.gif', '.bmp', '.tiff'))
IsImageName(name) ==
    \E i \in 1..Len(ImageExtensions) : EndsWith(StrLower(name), ImageExtensions[i])

\* [x for x in items if keep(x)], in order
RECURSIVE FilterImages(_)
FilterImages(items) ==
    IF items = <<>> THEN <<>>
    ELSE (IF IsImageName(Head(items)) THEN <<Head(items)>> ELSE <<>>)
         \o FilterImages(Tail(items))

(***************************************************************************)
(* The provider outcomes the pipeline draws from.                          *)
(***************************************************************************)
PipelineVision ==
    { VisionResponse("ok", "", <<"cat", "dog">>),
      VisionResponse("ok", "", <<>>),
      VisionResponse("ok", "Bad image data.", <<>>),
      VisionResponse("unreachable", "", <<>>) }

PipelineHttp ==
    { HttpExchange("ok", 200,
                   JsonObject(<<"success">>, <<>>, <<StrValue(<<"a", " ", "c", "a", "t">>)>>)),
      HttpExchange("ok", 500, NotJson) }

DefaultLocals == [google_tags |-> "", astica_description |-> ""]

\* What the run did, in order: a stage of process_image_metadata begun (normalize,
\* tag, describe, record) or a request sent to a provider (tag request, describe
\* request), for image number i; said is what compress_image printed.
Event(ev, i) == [ev |-> ev, image |-> i, said |-> ""]
NormalizeEvent(i, report) == [ev |-> "normalize", image |-> i, said |-> report]

(***************************************************************************)
(* main()                                                                  *)
(***************************************************************************)
MainUnchangedCall == UNCHANGED <<call, ret>>

\* Lines 188-196: the credentials, or return; the Astica key only warns.
Credentials ==
    /\ pc = "start"
    /\ \E upload \in CredUploads :
         LET r == setup_google_credentials(environ, colab, upload)
         IN /\ environ' = r.environ
            /\ pc' = IF r.ok THEN "input" ELSE "done"
    /\ UNCHANGED <<colab, stage, image_paths_to_process, idx, processed_images_metadata,
                   temp_image_paths_colab, disk, before, cur, csvfile, trace, escaped>>
    /\ MainUnchangedCall

\* Lines 199-218: the upload; each uploaded file is saved to the working directory,
\* and a file whose save raises is left out.
InputColab ==
    /\ pc = "input"
    /\ colab
    /\ \E uploaded \in DistinctSeqs(UploadNames, MaxDir) :
       \E content \in FileChoices(Range(uploaded)) :
       \E unsaved \in SUBSET Range(uploaded) :
         LET RECURSIVE Saved(_)
             Saved(names) ==
                 IF names = <<>> THEN <<>>
                 ELSE (IF Head(names) \in unsaved THEN <<>>
                       ELSE <<PathJoin(Cwd, Head(names))>>) \o Saved(Tail(names))
             paths == Saved(uploaded)
         IN IF uploaded = <<>>
            THEN /\ pc' = "done"
                 /\ UNCHANGED <<temp_image_paths_colab, image_paths_to_process, disk>>
            ELSE /\ temp_image_paths_colab' = paths
                 /\ image_paths_to_process' = paths
                 /\ disk' = [q \in Range(paths) |-> content[Basename(q)]]
                 /\ pc' = IF paths = <<>> THEN "csv" ELSE "loop"
    /\ UNCHANGED <<colab, environ, stage, idx, processed_images_metadata, before, cur,
                   csvfile, trace, escaped>>
    /\ MainUnchangedCall

\* Lines 221-224: the path typed at the prompt does not exist.
InputMissing ==
    /\ pc = "input"
    /\ ~colab
    /\ pc' = "done"
    /\ UNCHANGED <<colab, environ, stage, image_paths_to_process, idx,
                   processed_images_metadata, temp_image_paths_colab, disk, before, cur,
                   csvfile, trace, escaped>>
    /\ MainUnchangedCall

\* Lines 226-231, 242-244: the path is a directory; os.listdir gives its entries in
\* any order, and the entries with an image extension are kept.
InputDirectory ==
    /\ pc = "input"
    /\ ~colab
    /\ \E listing \in DistinctSeqs(Names, MaxDir) :
       \E content \in FileChoices(Range(listing)) :
         LET kept == FilterImages(listing)
             paths == [i \in 1..Len(kept) |-> PathJoin(DirPath, kept[i])]
         IN /\ image_paths_to_process' = paths
            /\ disk' = [q \in {PathJoin(DirPath, n) : n \in Range(listing)}
                          |-> content[Basename(q)]]
            /\ pc' = IF paths = <<>> THEN "done" ELSE "loop"
    /\ UNCHANGED <<colab, environ, stage, idx, processed_images_metadata,
                   temp_image_paths_colab, before, cur, csvfile, trace, escaped>>
    /\ MainUnchangedCall

\* Lines 232-237: the path is a file; it is taken if it has an image extension.
InputFile ==
    /\ pc = "input"
    /\ ~colab
    /\ \E name \in Names :
       \E f \in FilesNamed(name) \ {AbsentFile} :
         LET image_source_path == PathJoin(DirPath, name)
         IN /\ disk' = [q \in {image_source_path} |-> f]
            /\ IF IsImageName(image_source_path)
               THEN /\ image_paths_to_process' = <<image_source_path>>
                    /\ pc' = "loop"
               ELSE /\ image_paths_to_process' = <<>>
                    /\ pc' = "done"
    /\ UNCHANGED <<colab, environ, stage, idx, processed_images_metadata,
                   temp_image_paths_colab, before, cur, csvfile, trace, escaped>>
    /\ MainUnchangedCall

\* Lines 238-240: the path exists and is neither a file nor a directory.
InputOther ==
    /\ pc = "input"
    /\ ~colab
    /\ disk' = [q \in {DevPath} |-> CorruptFile]
    /\ pc' = "done"
    /\ UNCHANGED <<colab, environ, stage, image_paths_to_process, idx,
                   processed_images_metadata, temp_image_paths_colab, before, cur,
                   csvfile, trace, escaped>>
    /\ MainUnchangedCall

(***************************************************************************)
(* process_image_metadata, one stage at a time, for image_paths_to_process *)
(* [idx]; the last stage is the loop body's append (line 249).             *)
(***************************************************************************)
image_path == image_paths_to_process[idx]

\* Line 163: compress_image(image_path)
Normalize ==
    /\ pc = "loop"
    /\ stage = "compress"
    /\ \E r \in compress_image(disk[image_path], MAX_IMAGE_WIDTH) :
         /\ before' = disk[image_path]
         /\ disk' = [disk EXCEPT ![image_path] = r.file]
         /\ escaped' = (escaped \/ r.escaped)
         /\ pc' = IF r.escaped THEN "raised" ELSE pc
         /\ trace' = Append(trace, NormalizeEvent(idx, r.report))
    /\ stage' = "tags"
    /\ UNCHANGED <<colab, environ, image_paths_to_process, idx, processed_images_metadata,
                   temp_image_paths_colab, cur, csvfile>>
    /\ MainUnchangedCall

TagRequestsRetried(t, i) ==
    IF ~t.requested THEN <<>>
    ELSE IF t.value = "Google Vision tags failed"
    THEN <<Event("tag request", i), Event("tag request", i)>>
    ELSE <<Event("tag request", i)>>

\* client.label_detection is called once, if the call gets that far.
TagRequests(t, i) == IF t.requested THEN <<Event("tag request", i)>> ELSE <<>>

\* Line 165: google_tags = get_image_tags_from_google(image_path)
Tag ==
    /\ pc = "loop"
    /\ stage = "tags"
    /\ \E clientOK \in BOOLEAN :
       \E response \in PipelineVision :
         LET t == get_image_tags_from_google(disk[image_path], clientOK, response)
         IN /\ cur' = [cur EXCEPT !.google_tags = t.value]
            /\ trace' = Append(trace, Event("tag", idx)) \o TagRequests(t, idx)
            /\ escaped' = (escaped \/ t.escaped)
            /\ pc' = IF t.escaped THEN "raised" ELSE pc
    /\ stage' = "describe"
    /\ UNCHANGED <<colab, environ, image_paths_to_process, idx, processed_images_metadata,
                   temp_image_paths_colab, disk, before, csvfile>>
    /\ MainUnchangedCall

\* Lines 167-172: the base64 conversion and, if it gave anything, the Astica call
Describe ==
    /\ pc = "loop"
    /\ stage = "describe"
    /\ LET image_base64 == convert_image_to_base64(disk[image_path])
       IN IF Truthy(image_base64)
          THEN \E http \in PipelineHttp :
               \E requestsNew \in BOOLEAN :
                 LET d == get_description_from_astica(environ.ASTICA_API_KEY, http,
                                                      requestsNew)
                 IN /\ cur' = [cur EXCEPT !.astica_description = d.value]
                    /\ trace' = Append(trace, Event("describe", idx))
                                   \o (IF d.requested
                                       THEN <<Event("describe request", idx)>> ELSE <<>>)
                    /\ escaped' = (escaped \/ d.escaped)
                    /\ pc' = IF d.escaped THEN "raised" ELSE pc
          ELSE /\ cur' = [cur EXCEPT !.astica_description =
                            "Astica processing skipped (image not available for base64)"]
               /\ UNCHANGED <<trace, escaped, pc>>
    /\ stage' = "record"
    /\ UNCHANGED <<colab, environ, image_paths_to_process, idx, processed_images_metadata,
                   temp_image_paths_colab, disk, before, csvfile>>
    /\ MainUnchangedCall

\* Lines 160, 175-180: the record process_image_metadata returns
Metadata(path, locals) ==
    [filename |-> Basename(path), description |-> locals.astica_description,
     tags |-> locals.google_tags]

AppendUnlessFailed(list, metadata) ==
    IF metadata.tags = "Google Vision tags failed" THEN list ELSE Append(list, metadata)

\* Line 249: processed_images_metadata.append(metadata)
AppendRecord(list, metadata) == Append(list, metadata)

\* Lines 175-180 and 247-252: the record is returned and appended, and the loop
\* moves to the next path or ends.
Record ==
    /\ pc = "loop"
    /\ stage = "record"
    /\ processed_images_metadata' =
          AppendRecord(processed_images_metadata, Metadata(image_path, cur))
    /\ trace' = Append(trace, Event("record", idx))
    /\ cur' = DefaultLocals
    /\ before' = AbsentFile
    /\ idx' = idx + 1
    /\ stage' = "compress"
    /\ pc' = IF idx + 1 > Len(image_paths_to_process) THEN "csv" ELSE "loop"
    /\ UNCHANGED <<colab, environ, image_paths_to_process, temp_image_paths_colab, disk,
                   csvfile, escaped>>
    /\ MainUnchangedCall

(***************************************************************************)
(* The CSV export (lines 254-273).                                         *)
(***************************************************************************)
fieldnames == <<"Filename", "Description", "Tags">>

\* The record as the CSV writer sees it: every value as text.
RowDict(metadata) ==
    [filename |-> Str(metadata.filename), description |-> metadata.description,
     tags |-> metadata.tags]

\* csv.DictWriter._dict_to_list with extrasaction='raise' and restval='': the keys
\* of the row that are no field name raise ValueError; otherwise the values are
\* listed in the order of the field names.
DictToList(rowdict, fields) ==
    IF DOMAIN rowdict \ Range(fields) # {}
    THEN [row |-> <<>>, exc |-> "ValueError"]
    ELSE [row |-> [i \in 1..Len(fields) |->
                     IF fields[i] \in DOMAIN rowdict THEN rowdict[fields[i]] ELSE ""],
          exc |-> NoExc]

\* writer.writerows(rowdicts): the rows written before the first one that raises,
\* and the exception.
RECURSIVE WriteRows(_, _)
WriteRows(rowdicts, fields) ==
    IF rowdicts = <<>> THEN [rows |-> <<>>, exc |-> NoExc]
    ELSE LET first == DictToList(RowDict(Head(rowdicts)), fields)
             rest == WriteRows(Tail(rowdicts), fields)
         IN IF first.exc # NoExc THEN [rows |-> <<>>, exc |-> first.exc]
            ELSE [rows |-> <<first.row>> \o rest.rows, exc |-> rest.exc]

NotOpened == [opened |-> FALSE, rows |-> <<>>]

ShouldWriteAlways(list) == TRUE

\* Line 255: if processed_images_metadata
ShouldWrite(list) == list # <<>>

\* Lines 254-273: the file is opened (IOError is reported), the header and the rows
\* are written; an exception while writing is reported and the file keeps what was
\* written before it.
WriteCsv ==
    /\ pc = "csv"
    /\ IF ShouldWrite(processed_images_metadata)
       THEN \E canOpen \in BOOLEAN :
              IF ~canOpen
              THEN /\ UNCHANGED csvfile
                   /\ escaped' = (escaped \/ Handler("OSError", <<"OSError", "Exception">>) = 0)
              ELSE LET w == WriteRows(processed_images_metadata, fieldnames)
                   IN /\ csvfile' = [opened |-> TRUE, rows |-> <<fieldnames>> \o w.rows]
                      /\ escaped' = (escaped \/ (w.exc # NoExc
                                        /\ Handler(w.exc, <<"OSError", "Exception">>) = 0))
       ELSE UNCHANGED <<csvfile, escaped>>
    /\ pc' = "cleanup"
    /\ UNCHANGED <<colab, environ, stage, image_paths_to_process, idx,
                   processed_images_metadata, temp_image_paths_colab, disk, before, cur,
                   trace>>
    /\ MainUnchangedCall

\* Lines 275-286: in Colab the files saved from the upload are removed.
Cleanup ==
    /\ pc = "cleanup"
    /\ disk' = IF colab /\ temp_image_paths_colab # <<>>
               THEN [q \in DOMAIN disk |->
                       IF q \in Range(temp_image_paths_colab) THEN AbsentFile ELSE disk[q]]
               ELSE disk
    /\ pc' = "done"
    /\ UNCHANGED <<colab, environ, stage, image_paths_to_process, idx,
                   processed_images_metadata, temp_image_paths_colab, before, cur, csvfile,
                   trace, escaped>>
    /\ MainUnchangedCall

(***************************************************************************)
(* The run of main().                                                      *)
(***************************************************************************)
Environs ==
    [GOOGLE_APPLICATION_CREDENTIALS : {<<>>, <<"key.json">>},
     cred_exists : BOOLEAN,
     ASTICA_API_KEY : {<<>>, <<"">>, <<"tkn">>}]

NoCall == <<>>

Init ==
    /\ colab \in BOOLEAN
    /\ environ \in {e \in Environs :
                      e.cred_exists => e.GOOGLE_APPLICATION_CREDENTIALS # <<>>}
    /\ pc = "start"
    /\ stage = "compress"
    /\ image_paths_to_process = <<>>
    /\ idx = 1
    /\ processed_images_metadata = <<>>
    /\ temp_image_paths_colab = <<>>
    /\ disk = <<>>
    /\ before = AbsentFile
    /\ cur = DefaultLocals
    /\ csvfile = NotOpened
    /\ trace = <<>>
    /\ escaped = FALSE
    /\ call = NoCall
    /\ ret = NoCall

Next ==
    \/ Credentials
    \/ InputColab
    \/ InputMissing
    \/ InputDirectory
    \/ InputFile
    \/ InputOther
    \/ Normalize
    \/ Tag
    \/ Describe
    \/ Record
    \/ WriteCsv
    \/ Cleanup

Spec == Init /\ [][Next]_vars

(***************************************************************************)
(* Single calls of the three functions, on inputs drawn at the start.      *)
(* The variables of main() keep their initial values.                      *)
(***************************************************************************)
MainIdle ==
    /\ colab = FALSE
    /\ environ = [GOOGLE_APPLICATION_CREDENTIALS |-> <<"key.json">>, cred_exists |-> TRUE,
                  ASTICA_API_KEY |-> <<"tkn">>]
    /\ stage = "compress"
    /\ image_paths_to_process = <<>>
    /\ idx = 1
    /\ processed_images_metadata = <<>>
    /\ temp_image_paths_colab = <<>>
    /\ disk = <<>>
    /\ before = AbsentFile
    /\ cur = DefaultLocals
    /\ csvfile = NotOpened
    /\ trace = <<>>
    /\ escaped = FALSE

MainUnchanged ==
    UNCHANGED <<colab, environ, stage, image_paths_to_process, idx,
                processed_images_metadata, temp_image_paths_colab, disk, before, cur,
                csvfile, trace>>

\* compress_image, twice in a row on the same path
Widths == {1, MAX_IMAGE_WIDTH - 1, MAX_IMAGE_WIDTH, MAX_IMAGE_WIDTH + 1, 1122,
           2 * MAX_IMAGE_WIDTH, 2 * MAX_IMAGE_WIDTH + 1}
Heights == (1..MaxHeight) \cup {561, MAX_IMAGE_WIDTH}

CompressInputs ==
    {ImageFile(w, h, s) : w \in Widths, h \in Heights, s \in BOOLEAN}
        \cup {CorruptFile, EmptyFile, AbsentFile}

InitCompress ==
    /\ MainIdle
    /\ pc = "compress_image"
    /\ call \in {[file |-> f, max_width |-> MAX_IMAGE_WIDTH] : f \in CompressInputs}
    /\ ret = <<>>

CallCompress ==
    /\ pc = "compress_image"
    /\ \E r \in compress_image(call.file, call.max_width) :
         /\ ret' = <<r>>
         /\ escaped' = r.escaped
    /\ pc' = "compress_image again"
    /\ UNCHANGED call
    /\ MainUnchanged

CallCompressAgain ==
    /\ pc = "compress_image again"
    /\ \E r \in compress_image(ret[1].file, call.max_width) :
         /\ ret' = Append(ret, r)
         /\ escaped' = (escaped \/ r.escaped)
    /\ pc' = "returned"
    /\ UNCHANGED call
    /\ MainUnchanged

NextCompress == CallCompress \/ CallCompressAgain

SpecCompress == InitCompress /\ [][NextCompress]_vars

\* get_image_tags_from_google
LabelTexts == {"", "cat", "dog"}

LabelLists == UNION {[1..k -> LabelTexts] : k \in 0..MaxLabels}

TagInputs ==
    [file : {ImageFile(800, 2, TRUE), EmptyFile, AbsentFile},
     clientOK : BOOLEAN,
     response : {VisionResponse(net, error, labels) :
                    net \in {"ok", "unreachable"}, error \in {"", "Bad image data."},
                    labels \in LabelLists}]

InitTags ==
    /\ MainIdle
    /\ pc = "get_image_tags_from_google"
    /\ call \in TagInputs
    /\ ret = <<>>

CallTags ==
    /\ pc = "get_image_tags_from_google"
    /\ LET t == get_image_tags_from_google(call.file, call.clientOK, call.response)
       IN /\ ret' = <<t>>
          /\ escaped' = t.escaped
    /\ pc' = "returned"
    /\ UNCHANGED call
    /\ MainUnchanged

NextTags == CallTags

SpecTags == InitTags /\ [][NextTags]_vars

\* get_description_from_astica
Captions ==
    {<<>>, <<NullValue>>, <<StrValue(<<>>)>>, <<StrValue(<<" ">>)>>,
     <<StrValue(<<" ", "a", " ", "c", "a", "t", " ">>)>>}

Bodies ==
    {NotJson, JsonNotObject}
        \cup {JsonObject(st, er, cap) :
                st \in {<<>>, <<"success">>, <<"error">>},
                er \in {<<>>, <<"quota exceeded">>},
                cap \in Captions}

AsticaInputs ==
    [astica_api_key : {<<>>, <<"">>, <<"tkn">>},
     http : {HttpExchange(net, status, body) :
                net \in {"ok", "ConnectionError", "Timeout"},
                status \in {200, 404, 500},
                body \in Bodies},
     requestsNew : BOOLEAN]

InitAstica ==
    /\ MainIdle
    /\ pc = "get_description_from_astica"
    /\ call \in AsticaInputs
    /\ ret = <<>>

CallAstica ==
    /\ pc = "get_description_from_astica"
    /\ LET d == get_description_from_astica(call.astica_api_key, call.http,
                                            call.requestsNew)
       IN /\ ret' = <<d>>
          /\ escaped' = d.escaped
    /\ pc' = "returned"
    /\ UNCHANGED call
    /\ MainUnchanged

NextAstica == CallAstica

SpecAstica == InitAstica /\ [][NextAstica]_vars

(***************************************************************************)
(* Properties of the run of main() (Spec).                                 *)
(***************************************************************************)
LoopOver == pc \in {"csv", "cleanup", "done"}

CredentialsValid ==
    environ.GOOGLE_APPLICATION_CREDENTIALS # <<>> /\ environ.cred_exists

\* The events of the trace that belong to image i, in order.
RECURSIVE EventsOf(_, _)
EventsOf(t, i) ==
    IF t = <<>> THEN <<>>
    ELSE (IF Head(t).image = i THEN <<Head(t).ev>> ELSE <<>>) \o EventsOf(Tail(t), i)

Count(t, i, ev) == Cardinality({k \in 1..Len(t) : t[k].image = i /\ t[k].ev = ev})

Rank(ev) ==
    CASE ev = "normalize" -> 1
      [] ev = "tag" -> 2
      [] ev = "tag request" -> 3
      [] ev = "describe" -> 4
      [] ev = "describe request" -> 5
      [] ev = "record" -> 6

\* Later events belong to later images, or to the same image and a later stage.
StrictlySequential(t) ==
    \A j, k \in 1..Len(t) :
        j < k => \/ t[j].image < t[k].image
                 \/ t[j].image = t[k].image /\ Rank(t[j].ev) < Rank(t[k].ev)

\* C1: when main() processed N >= 1 images and image_metadata.csv could be opened,
\* the file holds the header row Filename,Description,Tags followed by exactly N
\* data rows, one per record, in record order, each with that record's filename,
\* description and tags.
C1_CsvHoldsHeaderAndOneRowPerRecord ==
    (pc \in {"cleanup", "done"} /\ csvfile.opened) =>
        csvfile.rows =
            <<fieldnames>> \o
            [i \in 1..Len(processed_images_metadata) |->
                <<Str(processed_images_metadata[i].filename),
                  processed_images_metadata[i].description,
                  processed_images_metadata[i].tags>>]

\* C2: whatever fails in whichever stage, the loop is never left by an exception,
\* the records made so far are those of the paths processed so far, in order, and
\* once the loop is over there is exactly one record per path, in path order, whose
\* filename is the part of its path after the last "/".
C2_OneRecordPerPathInOrder ==
    /\ ~escaped
    /\ pc # "raised"
    /\ pc = "loop" => Len(processed_images_metadata) = idx - 1
    /\ LoopOver => Len(processed_images_metadata) = Len(image_paths_to_process)
    /\ \A i \in 1..Len(processed_images_metadata) :
         LET filename == processed_images_metadata[i].filename
             path == image_paths_to_process[i]
         IN /\ \A k \in 1..Len(filename) : filename[k] # "/"
            /\ path = filename \/ EndsWith(path, <<"/">> \o filename)

\* A run over two images in which the normalizer failed and emptied the first file,
\* so that its tags failed and its description was skipped, and a provider failed
\* for the second.
C2_Witness ==
    /\ pc = "done"
    /\ Len(processed_images_metadata) = 2
    /\ disk[image_paths_to_process[1]] = EmptyFile
    /\ processed_images_metadata[1].tags = "Google Vision tags failed"
    /\ processed_images_metadata[1].description =
          "Astica processing skipped (image not available for base64)"
    /\ processed_images_metadata[2].description = "Astica API request failed (HTTP error)"

\* C3, as stated: the stages of an image come in the order normalize, tag,
\* describe, record, image after image, and every recorded image had exactly one
\* tag call and exactly one describe call.
C3_EveryImageHasOneTagAndOneDescribeCall ==
    /\ StrictlySequential(trace)
    /\ \A i \in 1..Len(processed_images_metadata) :
         /\ Count(trace, i, "normalize") = 1
         /\ Count(trace, i, "tag") = 1
         /\ Count(trace, i, "describe") = 1
         /\ Count(trace, i, "record") = 1

\* C3, amended: the stages of an image come in the order normalize, tag, describe,
\* record, each at most once and image after image; every recorded image was
\* normalized, had one call of the tag function and was recorded once; a request is
\* sent to a provider at most once per image; the describe call is made exactly
\* when the file has bytes to encode (it is skipped for a missing or empty file),
\* and it sends its request exactly when an API key is configured.
C3_StagesInOrderAtMostOneRequest ==
    /\ StrictlySequential(trace)
    /\ \A i \in 1..Len(processed_images_metadata) :
         LET f == disk[image_paths_to_process[i]]
             encodable == f.kind \notin {"absent", "empty"}
         IN /\ Count(trace, i, "normalize") = 1
            /\ Count(trace, i, "tag") = 1
            /\ Count(trace, i, "record") = 1
            /\ Count(trace, i, "tag request") <= 1
            \* (the cleanup of a Colab run removes the files afterwards)
            /\ pc # "done" =>
                 /\ f.kind = "absent" => Count(trace, i, "tag request") = 0
                 /\ Count(trace, i, "describe") = (IF encodable THEN 1 ELSE 0)
                 /\ Count(trace, i, "describe request") =
                      (IF encodable /\ Truthy(environ.ASTICA_API_KEY) THEN 1 ELSE 0)

\* Two images recorded: the first went through every stage and both requests, the
\* second had its tag request fail and its describe call skipped.
C3_Witness ==
    /\ Len(processed_images_metadata) = 2
    /\ EventsOf(trace, 1) =
          <<"normalize", "tag", "tag request", "describe", "describe request", "record">>
    /\ EventsOf(trace, 2) = <<"normalize", "tag", "tag request", "record">>
    /\ processed_images_metadata[2].tags = "Google Vision tags failed"

\* C4: when setup_google_credentials returned False (the credentials variable is
\* unset or names no existing file, and no upload replaced it), main() has returned
\* and nothing was done: no path resolved, no file touched, no stage run, no request
\* sent, no record made, no CSV opened.  A missing or empty ASTICA_API_KEY alone
\* aborts nothing: the loop ends with a record for every path, each description
\* being the key-not-configured or the skipped sentinel, and no request was sent to
\* the description provider.
C4_AbortOnlyWithoutCredentials ==
    /\ (pc # "start" /\ ~CredentialsValid) =>
          /\ pc = "done"
          /\ image_paths_to_process = <<>>
          /\ disk = <<>>
          /\ trace = <<>>
          /\ processed_images_metadata = <<>>
          /\ ~csvfile.opened
    /\ (CredentialsValid /\ ~Truthy(environ.ASTICA_API_KEY)) =>
          /\ pc # "raised"
          /\ LoopOver => Len(processed_images_metadata) = Len(image_paths_to_process)
          /\ \A i \in 1..Len(processed_images_metadata) :
               /\ processed_images_metadata[i].description \in
                     {"Astica API key not configured",
                      "Astica processing skipped (image not available for base64)"}
               /\ Count(trace, i, "describe request") = 0

\* main() has returned because the credentials variable names a file that does not
\* exist (and, in Colab, nothing usable was uploaded).
C4_Witness ==
    /\ pc = "done"
    /\ environ.GOOGLE_APPLICATION_CREDENTIALS # <<>>
    /\ ~environ.cred_exists
    /\ Truthy(environ.ASTICA_API_KEY)

\* C8, as stated: whenever compress_image reports an error it does not raise and the
\* file is exactly as it was before the call.
C8_FailedCompressLeavesFileUntouched ==
    (stage = "tags" /\ trace[Len(trace)].said # "Compressed") =>
        /\ ~escaped
        /\ disk[image_path] = before

\* The stages image i went through once its normalization had failed.
AfterFailedNormalize(i) ==
    \E k \in 1..Len(trace) :
        /\ trace[k].image = i
        /\ trace[k].ev = "normalize"
        /\ trace[k].said # "Compressed"

\* C8, amended: whenever compress_image reports an error it does not raise; the
\* file is exactly as it was before the call if the error came from opening the
\* file (missing, or not an image) or from resizing; an error raised while saving
\* leaves the file emptied, never anything else.  The remaining stages still run
\* for that image, and every image is recorded.
C8_FailedCompressBeforeSaveLeavesFileUntouched ==
    /\ ~escaped
    /\ pc # "raised"
    /\ (stage = "tags" /\ trace[Len(trace)].said # "Compressed") =>
          /\ before.kind # "image" => disk[image_path] = before
          /\ (before.kind = "image" /\ before.savable) => disk[image_path] = before
          /\ disk[image_path] \in {before, EmptyFile}
          /\ trace[Len(trace)].said = "Error: Image file not found"
                <=> before.kind = "absent"
    /\ \A i \in 1..Len(image_paths_to_process) :
          (AfterFailedNormalize(i) /\ i < idx) =>
              /\ Count(trace, i, "tag") = 1
              /\ Count(trace, i, "record") = 1
              /\ Len(processed_images_metadata) >= i
    /\ LoopOver => Len(processed_images_metadata) = Len(image_paths_to_process)

\* A finished run over two images: the first file is no image, its normalization
\* failed and left it as it was, and both images were recorded.
C8_Witness ==
    /\ pc = "cleanup"
    /\ Len(processed_images_metadata) = 2
    /\ AfterFailedNormalize(1)
    /\ disk[image_paths_to_process[1]] = CorruptFile
    /\ ~AfterFailedNormalize(2)

\* The names of the directory that carry one of the six extensions, whatever the
\* case: the part from the last "." on, lowered, is one of them.
HasImageExtension(name) ==
    LET dots == {k \in 1..Len(name) : name[k] = "."}
    IN /\ dots # {}
       /\ LET last == CHOOSE k \in dots : \A j \in dots : j <= k
          IN StrLower(SubSeq(name, last, Len(name))) \in
                { <<".", "p", "n", "g">>, <<".", "j", "p", "g">>,
                  <<".", "j", "p", "e", "g">>, <<".", "g", "i", "f">>,
                  <<".", "b", "m", "p">>, <<".", "t", "i", "f", "f">> }

\* C9: in local mode, once the loop is over, the records are exactly the entries of
\* the scanned directory whose name ends, whatever the case, in .png, .jpg, .jpeg,
\* .gif, .bmp or .tiff: one record for each such entry and none for any other.
C9_RecordsAreTheImageEntries ==
    (~colab /\ LoopOver) =>
        LET entries == {Basename(q) : q \in DOMAIN disk}
            images == {n \in entries : HasImageExtension(n)}
        IN /\ {processed_images_metadata[i].filename :
                  i \in 1..Len(processed_images_metadata)} = images
           /\ Len(processed_images_metadata) = Cardinality(images)

\* A directory holding b.PNG and c.txt was scanned: one record, for b.PNG.
C9_Witness ==
    /\ ~colab
    /\ pc = "done"
    /\ DOMAIN disk = {PathJoin(DirPath, <<"b", ".", "P", "N", "G">>),
                      PathJoin(DirPath, <<"c", ".", "t", "x", "t">>)}
    /\ Len(processed_images_metadata) = 1
    /\ processed_images_metadata[1].filename = <<"b", ".", "P", "N", "G">>

\* C10: in a run that found no image to process (nothing uploaded, no upload saved,
\* a path that does not exist, a directory without images, a file of another type,
\* a path that is neither), the CSV file is never opened, no stage is run and no
\* request sent, no exception escapes, and the run goes on to its end.
C10_NoImagesNoCsv ==
    (pc \notin {"start", "input"} /\ image_paths_to_process = <<>>) =>
        /\ ~csvfile.opened
        /\ csvfile.rows = <<>>
        /\ trace = <<>>
        /\ processed_images_metadata = <<>>
        /\ ~escaped
        /\ LoopOver

\* A Colab run in which files were uploaded and none could be saved: it went past
\* the export with nothing to process.
C10_Witness ==
    /\ colab
    /\ pc = "cleanup"
    /\ CredentialsValid
    /\ image_paths_to_process = <<>>
    /\ idx = 1
    /\ ~csvfile.opened

(***************************************************************************)
(* Properties of get_description_from_astica (SpecAstica).                 *)
(***************************************************************************)
Returned == pc = "returned"

\* C5: get_description_from_astica never raises and returns, for each kind of
\* outcome, that kind's text: without an API key 'Astica API key not configured',
\* and no request is sent; for a status outside 2xx the HTTP-error sentinel; for a
\* connection failure or a timeout the connection-error sentinel; for a body that
\* is not valid JSON the JSON-decoding sentinel; for an error payload
\* 'Astica API error: <msg>'; for an object without a caption 'No description
\* available from Astica'; and otherwise the caption.
C5_EachFailureKindHasItsSentinel ==
    Returned =>
        LET r == ret[1]
            http == call.http
            body == http.body
            errorPayload == body.status = <<"error">> \/ body.error # <<>>
        IN /\ ~r.escaped
           /\ IF ~Truthy(call.astica_api_key)
              THEN r.value = "Astica API key not configured" /\ ~r.requested
              ELSE /\ r.requested
                   /\ http.net # "ok" =>
                        r.value = "Astica API request failed (Connection/Request error)"
                   /\ (http.net = "ok" /\ ~(http.status \in 200..299)) =>
                        r.value = "Astica API request failed (HTTP error)"
                   /\ (http.net = "ok" /\ http.status \in 200..299) =>
                        /\ ~body.valid =>
                             r.value = "Astica API response JSON decoding failed"
                        /\ (body.obj /\ errorPayload /\ body.error # <<>>) =>
                             r.value = "Astica API error: " \o body.error[1]
                        /\ (body.obj /\ ~errorPayload /\ body.caption = <<>>) =>
                             r.value = "No description available from Astica"
                        /\ (body.obj /\ ~errorPayload /\ body.caption # <<>>
                              /\ body.caption[1].str
                              /\ Strip(body.caption[1].chars) # <<>>) =>
                             r.value = Str(Strip(body.caption[1].chars))

(***************************************************************************)
(* Properties of get_image_tags_from_google (SpecTags).                    *)
(***************************************************************************)
\* The descriptions with ", " between them, built from the left.
RECURSIVE Joined(_)
Joined(items) ==
    IF Len(items) = 1 THEN items[1]
    ELSE Joined(SubSeq(items, 1, Len(items) - 1)) \o ", " \o items[Len(items)]

AnsweredWithoutError ==
    /\ call.clientOK
    /\ call.file.kind # "absent"
    /\ call.response.net = "ok"
    /\ call.response.error = ""

\* C6, as stated: a response without error and with N >= 1 labels gives exactly
\* the descriptions joined by ', ', for every sequence of descriptions.
C6_LabelsAlwaysJoined ==
    (Returned /\ AnsweredWithoutError /\ Len(call.response.labels) >= 1) =>
        ret[1].value = Joined(call.response.labels)

\* C6, amended: the function never raises; any error gives 'Google Vision tags
\* failed'; a response without error gives 'No tags found by Google Vision' for
\* zero labels, and for N >= 1 labels their descriptions joined by ', ' in response
\* order, unless that text is empty (a single label whose description is empty),
\* which also gives 'No tags found by Google Vision'.
C6_LabelsJoinedUnlessEmpty ==
    Returned =>
        LET labels == call.response.labels
        IN /\ ~ret[1].escaped
           /\ ~AnsweredWithoutError => ret[1].value = "Google Vision tags failed"
           /\ (AnsweredWithoutError /\ labels = <<>>) =>
                 ret[1].value = "No tags found by Google Vision"
           /\ (AnsweredWithoutError /\ Len(labels) >= 1) =>
                 /\ Joined(labels) # "" => ret[1].value = Joined(labels)
                 /\ Joined(labels) = "" =>
                       /\ labels = <<"">>
                       /\ ret[1].value = "No tags found by Google Vision"

\* Two labels came back, dog before cat.
C6_Witness ==
    /\ Returned
    /\ AnsweredWithoutError
    /\ call.response.labels = <<"dog", "cat">>
    /\ ret[1].value = "dog, cat"

(***************************************************************************)
(* Properties of compress_image (SpecCompress).                            *)
(***************************************************************************)
\* C7: for an image of width w and height h that can be read and written back,
\* after compress_image the stored image has dimensions (w, h) if w <= M, and width
\* exactly M and a height within one of h*M/w if w > M; a second pass leaves the
\* dimensions of the first pass unchanged.
C7_WidthReducedToMaximum ==
    (pc # "compress_image" /\ call.file.kind = "image" /\ call.file.savable) =>
        LET w == call.file.w
            h == call.file.h
            M == call.max_width
            stored == ret[1].file
        IN /\ stored.kind = "image"
           /\ w <= M => (stored.w = w /\ stored.h = h)
           /\ w > M => /\ stored.w = M
                       /\ stored.h * w <= h * M
                       /\ h * M <= (stored.h + 1) * w
           /\ Returned => (ret[2].file.w = stored.w /\ ret[2].file.h = stored.h)

====
